---- MODULE Spec2Model ----
(***************************************************************************)
(* AGS3870 methane sensor driver (AGS3870.cpp): the register transport,    *)
(* the CRC-8 check, the decoders and the last-known-good PPM cache.        *)
(*                                                                         *)
(* A uint32_t is modelled as a pair <<hi, lo>> of 16-bit words, so that    *)
(* values up to 2^32 - 1 stay inside the integers the model checker has.   *)
(* The width of `int` is a property of the build (16 bits on AVR, 32 bits  *)
(* on ARM/ESP): it is chosen once, in Init.                                *)
(***************************************************************************)
EXTENDS Integers, Sequences, FiniteSets, TLC

VARIABLES
  _error,      \* int      _error
  _lastPPM,    \* uint32_t _lastPPM, as <<hi, lo>>
  _lastRead,   \* uint32_t _lastRead (millis)
  _startTime,  \* uint32_t _startTime (millis)
  _status,     \* uint8_t  _status
  _buffer,     \* uint8_t  _buffer[5], a function 0..4 -> 0..255
  arg,         \* the argument of the call: the record (data / reg) as passed in, or value
  out,         \* the same record when the call returned
  now,         \* millis()
  intBits,     \* width of int in this build
  op,          \* the operation that ran last
  ret,         \* what it returned
  wire,        \* the TwoWire calls it made, in order
  ioError,     \* _error as _readRegister / _writeRegister left it on return
  sensor,      \* what _readSensor() returned to readPPM() (line 69)
  succeeded    \* a readPPM() took the branch of lines 72-73 since the last reset()

vars == <<_error, _lastPPM, _lastRead, _startTime, _status, _buffer, arg, out,
          now, intBits, op, ret, wire, ioError, sensor, succeeded>>

----------------------------------------------------------------------------
\* Bounds and input samples

MaxTime == 1

Times == 0..MaxTime

\* endTransmission(): 0 success, 2 NACK on address
WireStatus == {0, 2}

\* requestFrom(address, 5) answers with the number of bytes received
WireCounts == {3, 5}

\* 4-byte payloads a sensor register may hold
Payloads == { <<0, 1, 2, 5>>,         \* ready
              <<129, 0, 18, 52>>,     \* bit 0 of byte[0] set: not ready
              <<0, 128, 128, 7>> }    \* bytes >= 0x80

ZeroValues == {4660, 33023}         \* 0x1234, 0x80FF

IntWidths == {16, 32}

----------------------------------------------------------------------------
\* Registers and error codes

AGS3870_PPM == 0
AGS3870_CALIBRATION == 1
AGS3870_VERSION == 17
AGS3870_RESISTANCE == 32

AGS3870_OK == 0
AGS3870_ERROR_CRC == -11
AGS3870_ERROR_READ == -12
AGS3870_ERROR_NOT_READY == -13

_address == 26


----------------------------------------------------------------------------
\* Machine arithmetic

Bit(x, i) == (x \div (2^i)) % 2

\* a ^ b on uint8_t, bit by bit
XorBits(a, b) ==
  LET XorBit(i) == ((Bit(a, i) + Bit(b, i)) % 2) * (2^i)
  IN  XorBit(0) + XorBit(1) + XorBit(2) + XorBit(3)
      + XorBit(4) + XorBit(5) + XorBit(6) + XorBit(7)

\* the same, worked out once for every pair of bytes
Xor8Table == [a \in 0..255 |-> [b \in 0..255 |-> XorBits(a, b)]]

Xor8(a, b) == Xor8Table[a][b]

\* INT_MAX of an int of w bits, 2^(w-1) - 1
IntMax(w) == (2^(w - 2) - 1) + 2^(w - 2)

\* a product computed in `int` of w bits; past INT_MAX the build yields the
\* two's complement wrap of the product
IntMul(a, b, w) ==
  LET p == a * b
  IN  IF p <= IntMax(w) THEN p ELSE ((p + 2^(w - 1)) % (2^w)) - 2^(w - 1)

\* int -> uint32_t, as <<hi, lo>>
ToU32(x) ==
  LET lo == x % 65536
      hi == ((x - lo) \div 65536) % 65536
  IN  <<hi, lo>>

\* int -> uint16_t
ToU16(x) == x % 65536

\* uint32_t + uint32_t
Add32(x, y) ==
  LET lo == x[2] + y[2]
      hi == x[1] + y[1] + (lo \div 65536)
  IN  <<hi % 65536, lo % 65536>>

\* uint32_t * small constant
Mul32(x, k) ==
  LET lo == x[2] * k
      hi == x[1] * k + (lo \div 65536)
  IN  <<hi % 65536, lo % 65536>>

----------------------------------------------------------------------------
\* _CRC8 (lines 241-254)

\* mutant of CRC8Shift: tests bit 0 where line 249 tests bit 7
CRC8Shift_LowBit(crc) ==
  IF Bit(crc, 0) = 1 THEN Xor8((crc * 2) % 256, 49)
                     ELSE (crc * 2) % 256

\* one turn of the inner loop, lines 249-250
CRC8Shift(crc) ==
  IF Bit(crc, 7) = 1 THEN Xor8((crc * 2) % 256, 49)
                     ELSE (crc * 2) % 256

\* the inner loop, lines 247-251; crc is a uint8_t at every turn
RECURSIVE CRC8Bits(_, _)
CRC8Bits(crc, i) ==
  IF i = 8 \/ crc \notin 0..255 THEN crc ELSE CRC8Bits(CRC8Shift(crc), i + 1)

\* lines 247-251 for every value crc ^ buf[b] can take, worked out once
CRC8Table == [x \in 0..255 |-> CRC8Bits(x, 0)]

\* the outer loop, lines 244-252
RECURSIVE CRC8Bytes(_, _, _, _)
CRC8Bytes(buf, size, b, crc) ==
  IF b = size \/ crc \notin 0..255 THEN crc
  ELSE CRC8Bytes(buf, size, b + 1, CRC8Table[Xor8(crc, buf[b])])

_CRC8(buf, size) == CRC8Bytes(buf, size, 0, 255)

----------------------------------------------------------------------------
\* Frames the bus may deliver: a payload with its CRC, or with a corrupted CRC

AsBuffer(s) == [i \in 0..(Len(s) - 1) |-> s[i + 1]]

GoodCRC(p) == _CRC8(AsBuffer(p), 4)

Frames == UNION { { p \o <<GoodCRC(p)>>, p \o <<Xor8(GoodCRC(p), 1)>> } : p \in Payloads }

----------------------------------------------------------------------------
\* TwoWire calls, as they are logged in `wire`

BeginTransmission(a) == <<"beginTransmission", a>>
Write(b) == <<"write", b>>
EndTransmission(c) == <<"endTransmission", c>>
RequestFrom(a, q, n) == <<"requestFrom", a, q, n>>
Read(b) == <<"read", b>>

NoValue == <<0, 0>>

\* the operation called neither _readRegister nor _writeRegister
NoError == "none"

----------------------------------------------------------------------------
\* Private helpers

\* mutant of _readRegister: no return after a failed endTransmission
_readRegister_NoEarlyReturn(r, c, n, rx) ==
  LET tx == <<BeginTransmission(_address), Write(r), EndTransmission(c)>>
      rq == <<RequestFrom(_address, 5, n)>>
  IN  IF n # 5
      THEN [rv |-> FALSE, error |-> AGS3870_ERROR_READ, buffer |-> _buffer,
            wire |-> tx \o rq]
      ELSE [rv |-> TRUE, error |-> AGS3870_OK,
            buffer |-> [i \in 0..4 |-> rx[i + 1]],
            wire |-> tx \o rq \o [i \in 1..5 |-> Read(rx[i])]]

\* mutant of _readRegister: a NACKed address write is sent a second time
_readRegister_Retry(r, c, n, rx) ==
  LET tx == <<BeginTransmission(_address), Write(r), EndTransmission(c)>>
      rq == <<RequestFrom(_address, 5, n)>>
  IN  IF c # 0
      THEN [rv |-> FALSE, error |-> c, buffer |-> _buffer, wire |-> tx \o tx]
      ELSE IF n # 5
      THEN [rv |-> FALSE, error |-> AGS3870_ERROR_READ, buffer |-> _buffer,
            wire |-> tx \o rq]
      ELSE [rv |-> TRUE, error |-> AGS3870_OK,
            buffer |-> [i \in 0..4 |-> rx[i + 1]],
            wire |-> tx \o rq \o [i \in 1..5 |-> Read(rx[i])]]

\* mutant of _readRegister: the bytes are stored from the far end of the buffer
_readRegister_Reversed(r, c, n, rx) ==
  LET tx == <<BeginTransmission(_address), Write(r), EndTransmission(c)>>
      rq == <<RequestFrom(_address, 5, n)>>
  IN  IF c # 0
      THEN [rv |-> FALSE, error |-> c, buffer |-> _buffer, wire |-> tx]
      ELSE IF n # 5
      THEN [rv |-> FALSE, error |-> AGS3870_ERROR_READ, buffer |-> _buffer,
            wire |-> tx \o rq]
      ELSE [rv |-> TRUE, error |-> AGS3870_OK,
            buffer |-> [i \in 0..4 |-> rx[5 - i]],
            wire |-> tx \o rq \o [i \in 1..5 |-> Read(rx[i])]]

\* _readRegister (lines 191-213): c is what endTransmission returns, n what
\* requestFrom returns, rx the bytes read() hands out, in arrival order
_readRegister(r, c, n, rx) ==
  LET tx == <<BeginTransmission(_address), Write(r), EndTransmission(c)>>
      rq == <<RequestFrom(_address, 5, n)>>
  IN  IF c # 0
      THEN [rv |-> FALSE, error |-> c, buffer |-> _buffer, wire |-> tx]
      ELSE IF n # 5
      THEN [rv |-> FALSE, error |-> AGS3870_ERROR_READ, buffer |-> _buffer,
            wire |-> tx \o rq]
      ELSE [rv |-> TRUE, error |-> AGS3870_OK,
            buffer |-> [i \in 0..4 |-> rx[i + 1]],
            wire |-> tx \o rq \o [i \in 1..5 |-> Read(rx[i])]]

\* _writeRegister (lines 216-226) of buffer buf
_writeRegister(r, buf, c) ==
  [rv |-> (c = 0), error |-> c,
   wire |-> <<BeginTransmission(_address), Write(r)>>
            \o [i \in 1..5 |-> Write(buf[i - 1])]
            \o <<EndTransmission(c)>>]

\* mutant of _getDataMSB: the int sum is returned without the conversion to
\* uint16_t
_getDataMSB_AsInt(buf) == IntMul(buf[0], 256, intBits) + buf[1]

\* _getDataMSB, _getDataLSB (lines 229-238) on buffer buf; b << 8 is computed
\* in int and the sum is converted to the uint16_t return type
_getDataMSB(buf) == ToU16(IntMul(buf[0], 256, intBits) + buf[1])

_getDataLSB(buf) == ToU16(IntMul(buf[2], 256, intBits) + buf[3])

\* lines 179-181: value = b[1] * 65536UL; value += b[2] * 256; value += b[3]
PPMValue(buf) ==
  Add32(Add32(<<buf[1], 0>>, ToU32(IntMul(buf[2], 256, intBits))), ToU32(buf[3]))

\* mutant of _readSensor: the CRC check of lines 182-185 is left out
_readSensor_NoCRC(c, n, rx) ==
  LET r == _readRegister(AGS3870_PPM, c, n, rx)
      e1 == IF r.buffer[0] % 2 = 1 THEN AGS3870_ERROR_NOT_READY ELSE AGS3870_OK
  IN  IF r.rv
      THEN [value |-> PPMValue(r.buffer), error |-> e1, status |-> r.buffer[0],
            buffer |-> r.buffer, wire |-> r.wire, ioError |-> r.error]
      ELSE [value |-> NoValue, error |-> r.error, status |-> _status,
            buffer |-> r.buffer, wire |-> r.wire, ioError |-> r.error]

\* mutant of _readSensor: the not-ready test runs after the CRC check
_readSensor_NotReadyLast(c, n, rx) ==
  LET r == _readRegister(AGS3870_PPM, c, n, rx)
      e1 == IF _CRC8(r.buffer, 5) # 0 THEN AGS3870_ERROR_CRC ELSE AGS3870_OK
      e2 == IF r.buffer[0] % 2 = 1 THEN AGS3870_ERROR_NOT_READY ELSE e1
  IN  IF r.rv
      THEN [value |-> PPMValue(r.buffer), error |-> e2, status |-> r.buffer[0],
            buffer |-> r.buffer, wire |-> r.wire, ioError |-> r.error]
      ELSE [value |-> NoValue, error |-> r.error, status |-> _status,
            buffer |-> r.buffer, wire |-> r.wire, ioError |-> r.error]

\* _readSensor (lines 168-188)
_readSensor(c, n, rx) ==
  LET r == _readRegister(AGS3870_PPM, c, n, rx)
      e1 == IF r.buffer[0] % 2 = 1 THEN AGS3870_ERROR_NOT_READY ELSE AGS3870_OK
      e2 == IF _CRC8(r.buffer, 5) # 0 THEN AGS3870_ERROR_CRC ELSE e1
  IN  IF r.rv
      THEN [value |-> PPMValue(r.buffer), error |-> e2, status |-> r.buffer[0],
            buffer |-> r.buffer, wire |-> r.wire, ioError |-> r.error]
      ELSE [value |-> NoValue, error |-> r.error, status |-> _status,
            buffer |-> r.buffer, wire |-> r.wire, ioError |-> r.error]

----------------------------------------------------------------------------
\* Construction

\* no record is passed to the operation
NoRecord == "none"

\* ZeroCalibrationData records a caller may pass in
DataSamples == { [status |-> 0, value |-> 0], [status |-> 7, value |-> 9] }

\* readRegister calls a caller may make: an address and a RegisterData record
RegisterCalls ==
  { <<AGS3870_PPM, [data |-> [i \in 0..3 |-> 0], crc |-> 0, crcValid |-> FALSE]>>,
    <<AGS3870_VERSION, [data |-> [i \in 0..3 |-> i + 1], crc |-> 9, crcValid |-> TRUE]>> }

\* _buffer is set by neither the constructor nor reset(): zeroes in an object
\* of static storage, whatever the memory held otherwise
InitialBuffers == { [i \in 0..4 |-> 0], [i \in 0..4 |-> 255] }

\* AGS3870::AGS3870 (lines 20-24), which calls reset()
Init ==
  /\ intBits \in IntWidths
  /\ now \in Times
  /\ _startTime = now
  /\ _lastRead = 0
  /\ _lastPPM = NoValue
  /\ _status = AGS3870_OK
  /\ _error = AGS3870_OK
  /\ _buffer \in InitialBuffers
  /\ arg = NoRecord
  /\ out = NoRecord
  /\ op = "init"
  /\ ret = "void"
  /\ wire = <<>>
  /\ ioError = NoError
  /\ sensor = NoValue
  /\ succeeded = FALSE

----------------------------------------------------------------------------
\* Public operations

\* mutant of isConnected: the probe writes a register address
isConnected_WritesByte(c) ==
  /\ op' = "isConnected"
  /\ wire' = <<BeginTransmission(_address), Write(AGS3870_PPM), EndTransmission(c)>>
  /\ ioError' = NoError
  /\ ret' = (c = 0)
  /\ sensor' = NoValue
  /\ arg' = NoRecord
  /\ out' = NoRecord
  /\ UNCHANGED <<_error, _lastPPM, _lastRead, _startTime, _status, _buffer,
                 now, intBits, succeeded>>

\* isConnected (lines 34-39)
isConnected(c) ==
  /\ op' = "isConnected"
  /\ wire' = <<BeginTransmission(_address), EndTransmission(c)>>
  /\ ioError' = NoError
  /\ ret' = (c = 0)
  /\ sensor' = NoValue
  /\ arg' = NoRecord
  /\ out' = NoRecord
  /\ UNCHANGED <<_error, _lastPPM, _lastRead, _startTime, _status, _buffer,
                 now, intBits, succeeded>>

\* begin (lines 27-31)
begin(c) ==
  /\ op' = "begin"
  /\ _startTime' = now
  /\ wire' = <<BeginTransmission(_address), EndTransmission(c)>>
  /\ ioError' = NoError
  /\ ret' = (c = 0)
  /\ sensor' = NoValue
  /\ arg' = NoRecord
  /\ out' = NoRecord
  /\ UNCHANGED <<_error, _lastPPM, _lastRead, _status, _buffer,
                 now, intBits, succeeded>>

\* mutant of reset: the cached PPM value survives
reset_KeepsCache ==
  /\ op' = "reset"
  /\ _startTime' = now
  /\ _lastRead' = 0
  /\ _status' = AGS3870_OK
  /\ _error' = AGS3870_OK
  /\ wire' = <<>>
  /\ ioError' = NoError
  /\ ret' = "void"
  /\ sensor' = NoValue
  /\ arg' = NoRecord
  /\ out' = NoRecord
  /\ succeeded' = FALSE
  /\ UNCHANGED <<_lastPPM, _buffer, now, intBits>>

\* reset (lines 42-49)
reset ==
  /\ op' = "reset"
  /\ _startTime' = now
  /\ _lastRead' = 0
  /\ _lastPPM' = NoValue
  /\ _status' = AGS3870_OK
  /\ _error' = AGS3870_OK
  /\ wire' = <<>>
  /\ ioError' = NoError
  /\ ret' = "void"
  /\ sensor' = NoValue
  /\ arg' = NoRecord
  /\ out' = NoRecord
  /\ succeeded' = FALSE
  /\ UNCHANGED <<_buffer, now, intBits>>

\* mutant of getVersion: a CRC failure suppresses the version
getVersion_StrictCRC(c, n, rx) ==
  LET r == _readRegister(AGS3870_VERSION, c, n, rx)
      good == r.rv /\ _CRC8(r.buffer, 5) = 0
  IN  /\ op' = "getVersion"
      /\ wire' = r.wire
      /\ ioError' = r.error
      /\ _buffer' = r.buffer
      /\ _error' = IF r.rv /\ ~good THEN AGS3870_ERROR_CRC ELSE r.error
      /\ ret' = IF good THEN r.buffer[3] ELSE 255
      /\ sensor' = NoValue
      /\ arg' = NoRecord
      /\ out' = NoRecord
      /\ UNCHANGED <<_lastPPM, _lastRead, _startTime, _status, now, intBits, succeeded>>

\* getVersion (lines 52-64)
getVersion(c, n, rx) ==
  LET r == _readRegister(AGS3870_VERSION, c, n, rx)
  IN  /\ op' = "getVersion"
      /\ wire' = r.wire
      /\ ioError' = r.error
      /\ _buffer' = r.buffer
      /\ _error' = IF r.rv /\ _CRC8(r.buffer, 5) # 0 THEN AGS3870_ERROR_CRC
                   ELSE r.error
      /\ ret' = IF r.rv THEN r.buffer[3] ELSE 255
      /\ sensor' = NoValue
      /\ arg' = NoRecord
      /\ out' = NoRecord
      /\ UNCHANGED <<_lastPPM, _lastRead, _startTime, _status, now, intBits, succeeded>>

\* mutant of readPPM: the value just decoded is kept whatever the error
readPPM_NoFallback(c, n, rx) ==
  LET s == _readSensor(c, n, rx)
  IN  /\ op' = "readPPM"
      /\ wire' = s.wire
      /\ ioError' = s.ioError
      /\ _buffer' = s.buffer
      /\ _status' = s.status
      /\ _error' = s.error
      /\ sensor' = s.value
      /\ arg' = NoRecord
      /\ out' = NoRecord
      /\ _lastRead' = now
      /\ _lastPPM' = s.value
      /\ ret' = s.value
      /\ succeeded' = TRUE
      /\ UNCHANGED <<_startTime, now, intBits>>

\* readPPM (lines 67-80)
readPPM(c, n, rx) ==
  LET s == _readSensor(c, n, rx)
  IN  /\ op' = "readPPM"
      /\ wire' = s.wire
      /\ ioError' = s.ioError
      /\ _buffer' = s.buffer
      /\ _status' = s.status
      /\ _error' = s.error
      /\ sensor' = s.value
      /\ arg' = NoRecord
      /\ out' = NoRecord
      /\ IF s.error = AGS3870_OK
         THEN /\ _lastRead' = now
              /\ _lastPPM' = s.value
              /\ ret' = s.value
              /\ succeeded' = TRUE
         ELSE /\ ret' = _lastPPM
              /\ UNCHANGED <<_lastRead, _lastPPM, succeeded>>
      /\ UNCHANGED <<_startTime, now, intBits>>

\* lines 88-90: value = b[0] * 65536UL; value += b[1] * 256; value += b[2]
ResistanceValue(buf) ==
  Add32(Add32(<<buf[0], 0>>, ToU32(IntMul(buf[1], 256, intBits))), ToU32(buf[2]))

\* mutant of readResistance: the buffer is decoded whether or not the register
\* read succeeded
readResistance_Stale(c, n, rx) ==
  LET r == _readRegister(AGS3870_RESISTANCE, c, n, rx)
      value == ResistanceValue(r.buffer)
  IN  /\ op' = "readResistance"
      /\ wire' = r.wire
      /\ ioError' = r.error
      /\ _buffer' = r.buffer
      /\ _error' = IF r.rv /\ _CRC8(r.buffer, 5) # 0 THEN AGS3870_ERROR_CRC
                   ELSE r.error
      /\ ret' = Mul32(value, 10)
      /\ sensor' = NoValue
      /\ arg' = NoRecord
      /\ out' = NoRecord
      /\ UNCHANGED <<_lastPPM, _lastRead, _startTime, _status, now, intBits, succeeded>>

\* readResistance (lines 83-98)
readResistance(c, n, rx) ==
  LET r == _readRegister(AGS3870_RESISTANCE, c, n, rx)
      value == IF r.rv THEN ResistanceValue(r.buffer) ELSE NoValue
  IN  /\ op' = "readResistance"
      /\ wire' = r.wire
      /\ ioError' = r.error
      /\ _buffer' = r.buffer
      /\ _error' = IF r.rv /\ _CRC8(r.buffer, 5) # 0 THEN AGS3870_ERROR_CRC
                   ELSE r.error
      /\ ret' = Mul32(value, 10)
      /\ sensor' = NoValue
      /\ arg' = NoRecord
      /\ out' = NoRecord
      /\ UNCHANGED <<_lastPPM, _lastRead, _startTime, _status, now, intBits, succeeded>>

\* mutant of ZeroFrame: the low byte of value goes out first
ZeroFrame_LowFirst(value) ==
  LET b == [i \in 0..3 |-> CASE i = 0 -> 0
                              [] i = 1 -> 0
                              [] i = 2 -> value % 256
                              [] i = 3 -> (value \div 256) % 256]
  IN  [i \in 0..4 |-> IF i = 4 THEN _CRC8(b, 4) ELSE b[i]]

\* the outgoing frame of manualZeroCalibration, lines 103-107
ZeroFrame(value) ==
  LET b == [i \in 0..3 |-> CASE i = 0 -> 0
                              [] i = 1 -> 0
                              [] i = 2 -> (value \div 256) % 256
                              [] i = 3 -> value % 256]
  IN  [i \in 0..4 |-> IF i = 4 THEN _CRC8(b, 4) ELSE b[i]]

\* manualZeroCalibration (lines 101-109)
manualZeroCalibration(value, c) ==
  LET w == _writeRegister(AGS3870_CALIBRATION, ZeroFrame(value), c)
  IN  /\ op' = "manualZeroCalibration"
      /\ _buffer' = ZeroFrame(value)
      /\ wire' = w.wire
      /\ ioError' = w.error
      /\ _error' = w.error
      /\ ret' = w.rv
      /\ sensor' = NoValue
      /\ arg' = value
      /\ out' = NoRecord
      /\ UNCHANGED <<_lastPPM, _lastRead, _startTime, _status, now, intBits, succeeded>>

\* mutant of getZeroCalibrationData: the record is filled before the CRC check
getZeroCalibrationData_Pollutes(data, c, n, rx) ==
  LET r == _readRegister(AGS3870_CALIBRATION, c, n, rx)
      filled == [data EXCEPT !.status = _getDataMSB(r.buffer),
                             !.value = _getDataLSB(r.buffer)]
  IN  /\ op' = "getZeroCalibrationData"
      /\ wire' = r.wire
      /\ ioError' = r.error
      /\ _buffer' = r.buffer
      /\ sensor' = NoValue
      /\ arg' = data
      /\ IF ~r.rv
         THEN /\ _error' = r.error
              /\ ret' = FALSE
              /\ out' = data
         ELSE IF _CRC8(r.buffer, 5) # 0
         THEN /\ _error' = AGS3870_ERROR_CRC
              /\ ret' = FALSE
              /\ out' = filled
         ELSE /\ _error' = AGS3870_OK
              /\ out' = filled
              /\ ret' = TRUE
      /\ UNCHANGED <<_lastPPM, _lastRead, _startTime, _status, now, intBits, succeeded>>

\* getZeroCalibrationData (lines 112-129); data is the caller's record
getZeroCalibrationData(data, c, n, rx) ==
  LET r == _readRegister(AGS3870_CALIBRATION, c, n, rx)
  IN  /\ op' = "getZeroCalibrationData"
      /\ wire' = r.wire
      /\ ioError' = r.error
      /\ _buffer' = r.buffer
      /\ sensor' = NoValue
      /\ arg' = data
      /\ IF ~r.rv
         THEN /\ _error' = r.error
              /\ ret' = FALSE
              /\ out' = data
         ELSE IF _CRC8(r.buffer, 5) # 0
         THEN /\ _error' = AGS3870_ERROR_CRC
              /\ ret' = FALSE
              /\ out' = data
         ELSE /\ _error' = AGS3870_OK
              /\ out' = [data EXCEPT !.status = _getDataMSB(r.buffer),
                                     !.value = _getDataLSB(r.buffer)]
              /\ ret' = TRUE
      /\ UNCHANGED <<_lastPPM, _lastRead, _startTime, _status, now, intBits, succeeded>>

\* mutant of lastError: the slot is not reset after the read
lastError_NoReset ==
  /\ op' = "lastError"
  /\ ret' = _error
  /\ wire' = <<>>
  /\ ioError' = NoError
  /\ sensor' = NoValue
  /\ arg' = NoRecord
  /\ out' = NoRecord
  /\ UNCHANGED <<_error, _lastPPM, _lastRead, _startTime, _status, _buffer,
                 now, intBits, succeeded>>

\* lastError (lines 132-137)
lastError ==
  /\ op' = "lastError"
  /\ ret' = _error
  /\ _error' = AGS3870_OK
  /\ wire' = <<>>
  /\ ioError' = NoError
  /\ sensor' = NoValue
  /\ arg' = NoRecord
  /\ out' = NoRecord
  /\ UNCHANGED <<_lastPPM, _lastRead, _startTime, _status, _buffer, now, intBits, succeeded>>

\* readRegister (lines 140-161); reg is the caller's record
readRegister(address, reg, c, n, rx) ==
  LET r == _readRegister(address, c, n, rx)
  IN  /\ op' = "readRegister"
      /\ wire' = r.wire
      /\ ioError' = r.error
      /\ _buffer' = r.buffer
      /\ sensor' = NoValue
      /\ arg' = reg
      /\ IF ~r.rv
         THEN /\ _error' = r.error
              /\ ret' = FALSE
              /\ out' = reg
         ELSE IF _CRC8(r.buffer, 5) # 0
         THEN /\ _error' = AGS3870_ERROR_CRC
              /\ ret' = FALSE
              /\ out' = reg
         ELSE /\ _error' = AGS3870_OK
              /\ out' = [reg EXCEPT !.data = [i \in 0..3 |-> r.buffer[i]],
                                    !.crc = r.buffer[4],
                                    !.crcValid = TRUE]
              /\ ret' = TRUE
      /\ UNCHANGED <<_lastPPM, _lastRead, _startTime, _status, now, intBits, succeeded>>

\* millis() advances between operations
Tick ==
  /\ now < MaxTime
  /\ now' = now + 1
  /\ op' = "tick"
  /\ ret' = "void"
  /\ wire' = <<>>
  /\ ioError' = NoError
  /\ sensor' = NoValue
  /\ arg' = NoRecord
  /\ out' = NoRecord
  /\ UNCHANGED <<_error, _lastPPM, _lastRead, _startTime, _status, _buffer,
                 intBits, succeeded>>

----------------------------------------------------------------------------
\* What the bus answers in one register read: a status, a count, a frame.
\* A frame is drawn only when it is read, so that equal runs are equal states.
Answers ==
  { <<c, n, rx>> \in WireStatus \X WireCounts \X Frames :
      (c # 0 \/ n # 5) => rx = CHOOSE f \in Frames : TRUE }

DoBegin == \E c \in WireStatus : begin(c)
DoIsConnected == \E c \in WireStatus : isConnected(c)
DoGetVersion == \E a \in Answers : getVersion(a[1], a[2], a[3])
DoReadPPM == \E a \in Answers : readPPM(a[1], a[2], a[3])
DoReadResistance == \E a \in Answers : readResistance(a[1], a[2], a[3])
DoManualZeroCalibration ==
  \E v \in ZeroValues, c \in WireStatus : manualZeroCalibration(v, c)
DoGetZeroCalibrationData ==
  \E data \in DataSamples, a \in Answers :
      getZeroCalibrationData(data, a[1], a[2], a[3])
DoReadRegister ==
  \E call \in RegisterCalls, a \in Answers :
      readRegister(call[1], call[2], a[1], a[2], a[3])

Next ==
  \/ DoBegin
  \/ DoIsConnected
  \/ reset
  \/ DoGetVersion
  \/ DoReadPPM
  \/ DoReadResistance
  \/ DoManualZeroCalibration
  \/ DoGetZeroCalibrationData
  \/ lastError
  \/ DoReadRegister
  \/ Tick

Spec == Init /\ [][Next]_vars

----------------------------------------------------------------------------
\* _CRC8 on its own: every 5-byte buffer over a few payload bytes, with every
\* value of the CRC byte

CRCBytes == {0, 18, 255}

CRCInputs ==
  { [i \in 0..4 |-> IF i = 4 THEN k ELSE p[i + 1]] :
      p \in CRCBytes \X CRCBytes \X CRCBytes \X CRCBytes, k \in 0..255 }

InitCRC ==
  /\ _buffer \in CRCInputs
  /\ intBits = 16
  /\ now = 0
  /\ _startTime = 0
  /\ _lastRead = 0
  /\ _lastPPM = NoValue
  /\ _status = AGS3870_OK
  /\ _error = AGS3870_OK
  /\ arg = NoRecord
  /\ out = NoRecord
  /\ op = "init"
  /\ ret = "void"
  /\ wire = <<>>
  /\ ioError = NoError
  /\ sensor = NoValue
  /\ succeeded = FALSE

\* the check of a received frame: _CRC8(_buffer, 5), lines 58, 92, 118, 146, 182
crcCheck ==
  /\ op' = "crcCheck"
  /\ ret' = _CRC8(_buffer, 5)
  /\ UNCHANGED <<_error, _lastPPM, _lastRead, _startTime, _status, _buffer,
                 arg, out, now, intBits, wire, ioError, sensor, succeeded>>

\* the CRC of an outgoing frame: _buffer[4] = _CRC8(_buffer, 4), line 107
crcAppend ==
  /\ op' = "crcAppend"
  /\ _buffer' = [_buffer EXCEPT ![4] = _CRC8(_buffer, 4)]
  /\ ret' = "void"
  /\ UNCHANGED <<_error, _lastPPM, _lastRead, _startTime, _status,
                 arg, out, now, intBits, wire, ioError, sensor, succeeded>>

NextCRC == crcCheck \/ crcAppend

SpecCRC == InitCRC /\ [][NextCRC]_vars

----------------------------------------------------------------------------
\* The 24-bit compositions on their own: every payload over a few byte
\* values, on both builds

ComposeBytes == {0, 1, 127, 128, 255}

ComposeInputs ==
  { [i \in 0..4 |-> IF i = 4 THEN 0 ELSE p[i + 1]] :
      p \in ComposeBytes \X ComposeBytes \X ComposeBytes \X ComposeBytes }

InitCompose ==
  /\ _buffer \in ComposeInputs
  /\ intBits \in IntWidths
  /\ now = 0
  /\ _startTime = 0
  /\ _lastRead = 0
  /\ _lastPPM = NoValue
  /\ _status = AGS3870_OK
  /\ _error = AGS3870_OK
  /\ arg = NoRecord
  /\ out = NoRecord
  /\ op = "init"
  /\ ret = "void"
  /\ wire = <<>>
  /\ ioError = NoError
  /\ sensor = NoValue
  /\ succeeded = FALSE

\* the value _readSensor composes from the buffer, lines 179-181
composePPM ==
  /\ op' = "composePPM"
  /\ ret' = PPMValue(_buffer)
  /\ UNCHANGED <<_error, _lastPPM, _lastRead, _startTime, _status, _buffer,
                 arg, out, now, intBits, wire, ioError, sensor, succeeded>>

\* the value readResistance composes and scales, lines 88-90 and 97
composeResistance ==
  /\ op' = "composeResistance"
  /\ ret' = Mul32(ResistanceValue(_buffer), 10)
  /\ UNCHANGED <<_error, _lastPPM, _lastRead, _startTime, _status, _buffer,
                 arg, out, now, intBits, wire, ioError, sensor, succeeded>>

NextCompose == composePPM \/ composeResistance

SpecCompose == InitCompose /\ [][NextCompose]_vars

----------------------------------------------------------------------------
\* Reading the log of TwoWire calls

Calls(w, kind) == SelectSeq(w, LAMBDA e : e[1] = kind)

\* what endTransmission returned
EndStatus(w) == Calls(w, "endTransmission")[1][2]

\* requestFrom reported 5 bytes
Delivered(w) == \E i \in 1..Len(w) : w[i][1] = "requestFrom" /\ w[i][4] = 5

\* the bytes read() handed out, in arrival order, as a frame 0..4
Received(w) == [i \in 0..4 |-> Calls(w, "read")[i + 1][2]]

\* byte[1]*65536 + byte[2]*256 + byte[3] as a uint32_t
PayloadPPM(f) == ToU32(f[1] * 65536 + f[2] * 256 + f[3])

ReadOps == {"getVersion", "readPPM", "readResistance",
            "getZeroCalibrationData", "readRegister"}

StrictOps == {"getZeroCalibrationData", "readRegister"}

PublicOps == {"begin", "isConnected", "getVersion", "readPPM", "readResistance",
              "manualZeroCalibration", "getZeroCalibrationData", "readRegister"}

----------------------------------------------------------------------------
\* C1: a readPPM() that ends with the error slot different from OK returns
\* the PPM value cached before the call and leaves the cached value and its
\* timestamp as they were; a successful read returning V followed by a read
\* that fails CRC returns V again.
C1_FailedReadReturnsCache ==
  [][ (op' = "readPPM" /\ _error' # AGS3870_OK)
        => /\ ret' = _lastPPM
           /\ _lastPPM' = _lastPPM
           /\ _lastRead' = _lastRead
           /\ (op = "readPPM" /\ _error = AGS3870_OK
                 /\ _error' = AGS3870_ERROR_CRC) => ret' = ret ]_vars

\* a CRC-failed read after an earlier good one: the cached value is returned,
\* not the value just decoded, and the timestamp is older than the clock
C1_Witness ==
  /\ op = "readPPM"
  /\ _error = AGS3870_ERROR_CRC
  /\ Delivered(wire)
  /\ _lastPPM # NoValue
  /\ ret = _lastPPM
  /\ sensor # ret
  /\ _lastRead < now

\* C2: a readPPM() that ends with the error slot OK (write acknowledged,
\* 5 bytes received, bit 0 of byte[0] clear, CRC 0) returns
\* byte[1]*65536 + byte[2]*256 + byte[3] of the frame it received, and the
\* cache then holds that value with the current time as its timestamp.
C2_OkReadReturnsPayload ==
  (op = "readPPM" /\ _error = AGS3870_OK)
    => /\ EndStatus(wire) = 0
       /\ Delivered(wire)
       /\ Received(wire)[0] % 2 = 0
       /\ _CRC8(Received(wire), 5) = 0
       /\ ret = PayloadPPM(Received(wire))
       /\ _lastPPM = ret
       /\ _lastRead = now

\* C3 as stated: a readPPM() whose frame arrives in full with bit 0 of
\* byte[0] clear updates the cache with the decoded value, whatever the CRC.
C3_CacheUpdateWithoutCRC ==
  (op = "readPPM" /\ Delivered(wire) /\ Received(wire)[0] % 2 = 0)
    => (_lastPPM = sensor /\ _lastRead = now)

\* C3 as amended: a readPPM() whose frame arrives in full with bit 0 of
\* byte[0] clear updates the cache and its timestamp when the 5-byte CRC is
\* 0, and leaves both unchanged when the CRC fails: a valid CRC is required.
C3_CacheUpdateRequiresCRC ==
  [][ (op' = "readPPM" /\ Delivered(wire') /\ Received(wire')[0] % 2 = 0)
        => IF _CRC8(Received(wire'), 5) = 0
           THEN _lastPPM' = sensor' /\ _lastRead' = now'
           ELSE _lastPPM' = _lastPPM /\ _lastRead' = _lastRead ]_vars

\* a full, ready frame with a bad CRC: decoded, but not cached
C3_Witness ==
  /\ op = "readPPM"
  /\ Delivered(wire)
  /\ Received(wire)[0] % 2 = 0
  /\ _CRC8(Received(wire), 5) # 0
  /\ sensor # NoValue
  /\ _lastPPM # sensor
  /\ _lastRead < now

\* C4: lastError() returns the value the error slot held and leaves the slot
\* OK, so a second lastError() right after it returns OK; it changes nothing
\* else (cached PPM, timestamp, status byte, buffer, start time).
C4_LastErrorConsumes ==
  [][ op' = "lastError"
        => /\ ret' = _error
           /\ _error' = AGS3870_OK
           /\ UNCHANGED <<_lastPPM, _lastRead, _status, _buffer, _startTime>>
           /\ op = "lastError" => ret' = AGS3870_OK ]_vars

\* lastError() has just returned an error and cleared the slot
C4_Witness ==
  /\ op = "lastError"
  /\ ret = AGS3870_ERROR_NOT_READY
  /\ _error = AGS3870_OK
  /\ _lastPPM # NoValue

\* the error the bus exchange of the last operation calls for
Outcome ==
  IF EndStatus(wire) # 0 THEN EndStatus(wire)
  ELSE IF op \notin ReadOps THEN AGS3870_OK
  ELSE IF ~Delivered(wire) THEN AGS3870_ERROR_READ
  ELSE IF _CRC8(Received(wire), 5) # 0 THEN AGS3870_ERROR_CRC
  ELSE IF op = "readPPM" /\ Received(wire)[0] % 2 = 1 THEN AGS3870_ERROR_NOT_READY
  ELSE AGS3870_OK

\* C5: after every public operation (begin, isConnected, getVersion, readPPM,
\* readResistance, manualZeroCalibration, getZeroCalibrationData,
\* readRegister) the error slot holds the outcome of that operation: OK if
\* it succeeded, its own error if it failed, never an earlier error.
C5_ErrorReflectsLastOperation ==
  op \in PublicOps => _error = Outcome

\* C6: a getZeroCalibrationData / readRegister call that fails, because the
\* register read failed or because the CRC over the 5 received bytes is not
\* 0, returns false and leaves every field of the caller's record as it was
\* passed in; on CRC failure the error slot is the CRC error.
C6_StrictDecoderFailure ==
  (op \in StrictOps /\ (~Delivered(wire) \/ _CRC8(Received(wire), 5) # 0))
    => /\ ret = FALSE
       /\ out = arg
       /\ Delivered(wire) => _error = AGS3870_ERROR_CRC

\* a calibration read with a corrupted CRC byte, the record passed in holding data
C6_Witness ==
  /\ op = "getZeroCalibrationData"
  /\ Delivered(wire)
  /\ _CRC8(Received(wire), 5) # 0
  /\ ret = FALSE
  /\ arg.status = 7
  /\ out = arg

\* C7: after a PPM read that received all 5 bytes the error slot is the CRC
\* error if the 5-byte CRC is not 0 (also when bit 0 of byte[0] is set),
\* otherwise not-ready if bit 0 of byte[0] is set, otherwise OK; in all three
\* cases _readSensor returns the value composed (lines 179-181) from bytes
\* 1..3 of the received frame, which is byte[1]*65536 + byte[2]*256 + byte[3]
\* whenever byte[2] * 256 fits the int of the build.
C7_SensorErrorPrecedence ==
  (op = "readPPM" /\ Delivered(wire))
    => LET f == Received(wire)
       IN  /\ _error = IF _CRC8(f, 5) # 0 THEN AGS3870_ERROR_CRC
                       ELSE IF f[0] % 2 = 1 THEN AGS3870_ERROR_NOT_READY
                       ELSE AGS3870_OK
           /\ sensor = PPMValue(f)
           /\ f[2] * 256 <= IntMax(intBits) => sensor = PayloadPPM(f)

\* not ready and a bad CRC in one frame: the CRC error wins, the value is decoded
C7_Witness ==
  /\ op = "readPPM"
  /\ Delivered(wire)
  /\ Received(wire)[0] % 2 = 1
  /\ _CRC8(Received(wire), 5) # 0
  /\ _error = AGS3870_ERROR_CRC
  /\ sensor = PayloadPPM(Received(wire))
  /\ sensor # NoValue

\* the result by which operation o reports a failed register read
FailureResult(o, r, cache) ==
  CASE o = "getVersion" -> r = 255
    [] o = "readPPM" -> r = cache
    [] o = "readResistance" -> r = NoValue
    [] o \in StrictOps -> r = FALSE

\* C8: in a register read whose endTransmission returns a non-zero status,
\* the read fails, the error slot is exactly that status, no requestFrom is
\* issued, no byte is read and the buffer is unchanged.
C8_NackStopsRegisterRead ==
  [][ (op' \in ReadOps /\ EndStatus(wire') # 0)
        => /\ ioError' = EndStatus(wire')
           /\ _error' = EndStatus(wire')
           /\ Calls(wire', "requestFrom") = <<>>
           /\ Calls(wire', "read") = <<>>
           /\ _buffer' = _buffer
           /\ FailureResult(op', ret', _lastPPM) ]_vars

\* a NACKed register read while the buffer holds an earlier frame
C8_Witness ==
  /\ op \in ReadOps
  /\ EndStatus(wire) = 2
  /\ _error = 2
  /\ Len(wire) = 3
  /\ _buffer[4] # 0

\* C9: in a register read whose address write was acknowledged, exactly one
\* requestFrom for 5 bytes is issued; with a count other than 5 the read
\* fails with the read error, no byte is read and the buffer is unchanged;
\* with 5, exactly 5 bytes are read and stored in arrival order in buffer
\* positions 0..4 and _readRegister leaves the error slot OK.
C9_ReadRequest ==
  [][ (op' \in ReadOps /\ EndStatus(wire') = 0)
        => LET rq == Calls(wire', "requestFrom")
               rd == Calls(wire', "read")
           IN  /\ Len(rq) = 1
               /\ rq[1][2] = _address
               /\ rq[1][3] = 5
               /\ IF rq[1][4] # 5
                  THEN /\ ioError' = AGS3870_ERROR_READ
                       /\ _error' = AGS3870_ERROR_READ
                       /\ rd = <<>>
                       /\ _buffer' = _buffer
                       /\ FailureResult(op', ret', _lastPPM)
                  ELSE /\ Len(rd) = 5
                       /\ \A i \in 0..4 : _buffer'[i] = rd[i + 1][2]
                       /\ ioError' = AGS3870_OK ]_vars

\* an acknowledged register read that received its five bytes
C9_Witness ==
  /\ op \in ReadOps
  /\ EndStatus(wire) = 0
  /\ Delivered(wire)
  /\ Len(Calls(wire, "read")) = 5
  /\ _buffer = Received(wire)
  /\ _buffer[0] # _buffer[4]
  /\ ioError = AGS3870_OK

\* C10: for every 5-byte frame, _CRC8 over all 5 bytes is 0 exactly when
\* byte[4] equals _CRC8 over bytes 0..3; a frame whose byte[4] was set to the
\* CRC of its 4 payload bytes checks to 0.  The CRC is the CRC-8 of
\* polynomial 0x31, start value 0xFF, MSB first: {0xBE, 0xEF} gives 0x92.
C10_CRCSelfCheck ==
  /\ (_CRC8(_buffer, 5) = 0) <=> (_buffer[4] = _CRC8(_buffer, 4))
  /\ op = "crcCheck" => (ret = 0 <=> _buffer[4] = _CRC8(_buffer, 4))
  /\ op = "crcAppend" => _CRC8(_buffer, 5) = 0
  /\ _CRC8(AsBuffer(<<190, 239>>), 2) = 146

\* a frame that checks to 0 after its CRC byte was appended
C10_Witness ==
  /\ op = "crcCheck"
  /\ ret = 0
  /\ _buffer[2] = 18
  /\ _buffer[3] = 255

\* C11: manualZeroCalibration(value) performs a single bus transmission which
\* carries, in order, the calibration register address 0x01 and the 5 frame
\* bytes 0x00, 0x00, high byte of value, low byte of value and the CRC-8 over
\* those 4 bytes; it returns true exactly when the end-transmission status is
\* 0, and the error slot holds that status whether or not it is 0.
C11_ZeroCalibrationFrame ==
  op = "manualZeroCalibration"
    => LET hi == arg \div 256
           lo == arg % 256
           crc == _CRC8(AsBuffer(<<0, 0, hi, lo>>), 4)
       IN  /\ Len(wire) = 8
           /\ wire[1] = BeginTransmission(_address)
           /\ wire[2] = Write(1)
           /\ wire[3] = Write(0)
           /\ wire[4] = Write(0)
           /\ wire[5] = Write(hi)
           /\ wire[6] = Write(lo)
           /\ wire[7] = Write(crc)
           /\ wire[8][1] = "endTransmission"
           /\ Calls(wire, "requestFrom") = <<>>
           /\ ret = (EndStatus(wire) = 0)
           /\ _error = EndStatus(wire)

\* manualZeroCalibration(0x1234), NACKed: bytes 0x12, 0x34 and the CRC 0x61 of
\* {0x00, 0x00, 0x12, 0x34} went out, the call returned false, the slot is 2
C11_Witness ==
  /\ op = "manualZeroCalibration"
  /\ arg = 4660
  /\ wire[5] = Write(18)
  /\ wire[6] = Write(52)
  /\ wire[7] = Write(97)
  /\ EndStatus(wire) = 2
  /\ ret = FALSE
  /\ _error = 2

\* (byte[0]*65536 + byte[1]*256 + byte[2]) * 10 as a uint32_t
PayloadResistance(f) == Mul32(ToU32(f[0] * 65536 + f[1] * 256 + f[2]), 10)

\* C12: readResistance() returns (byte[0]*65536 + byte[1]*256 + byte[2]) * 10
\* of the frame received in that call whenever the register read delivered
\* 5 bytes, whatever byte[3] is; a CRC failure sets the error slot to the CRC
\* error and leaves the returned value as it is; when the register read
\* itself fails the call returns 0.
C12_ResistanceTimesTen ==
  op = "readResistance"
    => IF Delivered(wire)
       THEN /\ ret = PayloadResistance(Received(wire))
            /\ _error = IF _CRC8(Received(wire), 5) # 0 THEN AGS3870_ERROR_CRC
                        ELSE AGS3870_OK
       ELSE ret = NoValue

\* C13: getVersion() returns 0xFF whenever the version register read fails
\* (transport error or short read); whenever the read delivers 5 bytes it
\* returns byte[3] of that frame whatever the CRC result, with the error slot
\* the CRC error if the 5-byte CRC is not 0 and OK otherwise.
C13_VersionSentinel ==
  op = "getVersion"
    => IF Delivered(wire)
       THEN /\ ret = Received(wire)[3]
            /\ _error = IF _CRC8(Received(wire), 5) # 0 THEN AGS3870_ERROR_CRC
                        ELSE AGS3870_OK
       ELSE /\ ret = 255
            /\ _error \in {EndStatus(wire), AGS3870_ERROR_READ}
            /\ _error # AGS3870_OK

\* a version frame with a corrupted CRC byte: byte[3] is returned all the same
C13_Witness ==
  /\ op = "getVersion"
  /\ Delivered(wire)
  /\ _CRC8(Received(wire), 5) # 0
  /\ _error = AGS3870_ERROR_CRC
  /\ ret = Received(wire)[3]
  /\ ret = 52

\* C14: whenever getZeroCalibrationData or readRegister returns true, the
\* frame received in that call has a 5-byte CRC of 0, the error slot is OK and
\* the output record is the decoding of that frame: for calibration data
\* status = byte[0]*256 + byte[1] and value = byte[2]*256 + byte[3]; for the
\* generic register data[0..3] = bytes 0..3, crc = byte[4], crcValid = true.
C14_StrictDecoderSuccess ==
  (op \in StrictOps /\ ret = TRUE)
    => /\ Delivered(wire)
       /\ _CRC8(Received(wire), 5) = 0
       /\ _error = AGS3870_OK
       /\ LET f == Received(wire)
          IN  IF op = "getZeroCalibrationData"
              THEN /\ out.status = f[0] * 256 + f[1]
                   /\ out.value = f[2] * 256 + f[3]
              ELSE /\ out.data = [i \in 0..3 |-> f[i]]
                   /\ out.crc = f[4]
                   /\ out.crcValid = TRUE

\* calibration data with byte[0] >= 0x80, decoded where int has 16 bits, into
\* a record that held other values
C14_Witness ==
  /\ op = "getZeroCalibrationData"
  /\ ret = TRUE
  /\ intBits = 16
  /\ arg.status = 7
  /\ out.status = 33024
  /\ out.value = 4660

\* C15: isConnected() opens and closes one transmission to the configured
\* address with no payload byte and no read-request, returns true exactly when
\* the end-transmission status is 0, and leaves the cached PPM value, its
\* timestamp, the status byte and the frame buffer unchanged.
C15_IsConnectedProbe ==
  [][ op' = "isConnected"
        => /\ Len(wire') = 2
           /\ wire'[1] = BeginTransmission(_address)
           /\ wire'[2][1] = "endTransmission"
           /\ Calls(wire', "write") = <<>>
           /\ Calls(wire', "requestFrom") = <<>>
           /\ ret' = (EndStatus(wire') = 0)
           /\ UNCHANGED <<_lastPPM, _lastRead, _status, _buffer>> ]_vars

\* a NACKed probe on a driver that holds a cached value, a status byte and a
\* frame
C15_Witness ==
  /\ op = "isConnected"
  /\ EndStatus(wire) = 2
  /\ ret = FALSE
  /\ _lastPPM # NoValue
  /\ _lastRead = 1
  /\ _status = 129
  /\ _buffer[0] = 129

\* C16: immediately after construction or reset() the state is error = OK,
\* last PPM = 0, last-read timestamp = 0, status = OK; consequently every
\* readPPM() that fails before any readPPM() has succeeded (since construction
\* or the last reset) returns 0.
C16_InitialState ==
  /\ op \in {"init", "reset"}
       => /\ _error = AGS3870_OK
          /\ _lastPPM = NoValue
          /\ _lastRead = 0
          /\ _status = AGS3870_OK
          /\ ~succeeded
  /\ (op = "readPPM" /\ _error # AGS3870_OK /\ ~succeeded) => ret = NoValue

\* a readPPM() that decoded a non-zero value from a not-ready frame, with no
\* successful read before it: 0 is returned
C16_Witness ==
  /\ op = "readPPM"
  /\ _error = AGS3870_ERROR_NOT_READY
  /\ ~succeeded
  /\ sensor # NoValue
  /\ ret = NoValue
  /\ now = 1

\* the most bus calls one operation makes: begin, write, end, request, 5 reads
MaxBusCalls == 9

\* C17: every public operation ends after at most one begin/end transmission
\* and at most one read-request, a bounded number of bus calls in all, with no
\* retry: a NACK (non-zero end-transmission status) or a short read makes the
\* call return its failure result (false, 0xFF for getVersion, 0 for
\* readResistance, the cached value for readPPM) and is the last bus call of
\* the operation.
C17_NoRetry ==
  op \in PublicOps
    => /\ Len(wire) <= MaxBusCalls
       /\ Len(Calls(wire, "beginTransmission")) = 1
       /\ Len(Calls(wire, "endTransmission")) = 1
       /\ Len(Calls(wire, "requestFrom")) <= 1
       /\ EndStatus(wire) # 0
            => /\ wire[Len(wire)][1] = "endTransmission"
               /\ IF op \in ReadOps THEN FailureResult(op, ret, _lastPPM)
                                    ELSE ret = FALSE
       /\ (op \in ReadOps /\ EndStatus(wire) = 0 /\ ~Delivered(wire))
            => /\ wire[Len(wire)][1] = "requestFrom"
               /\ Calls(wire, "read") = <<>>
               /\ FailureResult(op, ret, _lastPPM)

\* a NACKed readPPM() on a driver with a cached value: three bus calls, the
\* cached value returned
C17_Witness ==
  /\ op = "readPPM"
  /\ EndStatus(wire) = 2
  /\ Len(wire) = 3
  /\ _lastPPM # NoValue
  /\ ret = _lastPPM

\* a uint32_t <<hi, lo>> is at most the number m
AtMost32(x, m) == x[1] < m \div 65536 \/ (x[1] = m \div 65536 /\ x[2] <= m % 65536)

\* C18: for every combination of payload bytes the 24-bit big-endian
\* composition of the PPM and resistance decoders, with the intermediate
\* products as the code computes them, equals b_hi*65536 + b_mid*256 + b_lo
\* and lies in 0..16777215, and the resistance result after the
\* multiplication by 10 lies in 0..167772150: nothing wraps or overflows.
C18_NoOverflow ==
  /\ op = "composePPM"
       => /\ ret = PayloadPPM(_buffer)
          /\ AtMost32(ret, 16777215)
  /\ op = "composeResistance"
       => /\ ret = PayloadResistance(_buffer)
          /\ AtMost32(ret, 167772150)

\* the frame was received in full, is flagged ready and has a 5-byte CRC of 0
GoodFrame(w) ==
  /\ Delivered(w)
  /\ Received(w)[0] % 2 = 0
  /\ _CRC8(Received(w), 5) = 0

\* C19: the last-known-good PPM cache is 0 after construction and reset() and
\* is otherwise the 24-bit payload of a PPM-register frame that was received
\* in full, had bit 0 of its status byte clear and had a 5-byte CRC of 0: a
\* readPPM() with such a frame caches and returns its payload, any other
\* readPPM() leaves the cache as it is and returns it, and no operation other
\* than readPPM() and reset() changes the cache or its timestamp.
C19_CacheHoldsGoodPayload ==
  [][ /\ op' = "reset" => _lastPPM' = NoValue
      /\ op' = "readPPM"
           => IF GoodFrame(wire')
              THEN /\ _lastPPM' = PayloadPPM(Received(wire'))
                   /\ ret' = _lastPPM'
              ELSE /\ _lastPPM' = _lastPPM
                   /\ _lastRead' = _lastRead
                   /\ ret' = _lastPPM
      /\ op' \notin {"readPPM", "reset"}
           => UNCHANGED <<_lastPPM, _lastRead>> ]_vars

\* what a read operation o hands back, worked out from the bus log w of the
\* call, the record a passed in and the cached value, never from the buffer
ResultOf(o, w, a, cache) ==
  LET full == EndStatus(w) = 0 /\ Delivered(w)
      f == Received(w)
      good == full /\ _CRC8(f, 5) = 0
  IN  CASE o = "getVersion" ->
             [ret |-> IF full THEN f[3] ELSE 255, out |-> NoRecord]
        [] o = "readPPM" ->
             [ret |-> IF good /\ f[0] % 2 = 0 THEN PPMValue(f) ELSE cache,
              out |-> NoRecord]
        [] o = "readResistance" ->
             [ret |-> IF full THEN Mul32(ResistanceValue(f), 10) ELSE NoValue,
              out |-> NoRecord]
        [] o = "getZeroCalibrationData" ->
             [ret |-> good,
              out |-> IF good THEN [status |-> _getDataMSB(f), value |-> _getDataLSB(f)]
                              ELSE a]
        [] o = "readRegister" ->
             [ret |-> good,
              out |-> IF good THEN [data |-> [i \in 0..3 |-> f[i]], crc |-> f[4],
                                    crcValid |-> TRUE]
                              ELSE a]

\* C20: the frame buffer never leaks between operations: the value returned,
\* the output record, the error slot and the cache after getVersion, readPPM,
\* readResistance, getZeroCalibrationData and readRegister are determined by
\* the bus responses of the current call, the record passed in and the cached
\* PPM value alone, so two histories that differ only in the buffer contents
\* left by earlier operations end with identical results.
C20_BufferDoesNotLeak ==
  [][ op' \in ReadOps
        => LET res == ResultOf(op', wire', arg', _lastPPM)
               ok == op' = "readPPM" /\ GoodFrame(wire')
           IN  /\ ret' = res.ret
               /\ out' = res.out
               /\ _error' = Outcome'
               /\ _lastPPM' = IF ok THEN res.ret ELSE _lastPPM
               /\ _lastRead' = IF ok THEN now ELSE _lastRead ]_vars

\* a short resistance read while the buffer still holds the outgoing frame of
\* manualZeroCalibration(0x1234): 0 is returned, not a decoding of that frame
C20_Witness ==
  /\ op = "readResistance"
  /\ ~Delivered(wire)
  /\ _buffer = ZeroFrame(4660)
  /\ ret = NoValue
  /\ _error = AGS3870_ERROR_READ

====
